---- MODULE Spec2Model ----
(***************************************************************************)
(* Model of the streaming dictation client: the AudioRecorder component    *)
(* (recording lifecycle, refs, timers) and the TranscriptionStream         *)
(* WebSocket client (connect, sendAudioChunk, pause/resume/stop, close,    *)
(* inbound dispatch), and the App's handlers of the component's callbacks  *)
(* (transcript segments, status, error).                                   *)
(*                                                                         *)
(* One "session" is one call of startRecording: it owns the MediaStream it *)
(* acquired, the TranscriptionStream it created and the MediaRecorder it   *)
(* built.  The component's refs hold a session number, 0 standing for      *)
(* null.  The browser (getUserMedia, WebSocket, MediaRecorder, timers) is  *)
(* the environment; its steps are separate actions.                        *)
(*                                                                         *)
(* Time is counted in ticks of 1000 ms, the period of the elapsed-time     *)
(* interval.  A chunk's arrayBuffer() read and the encoder's final         *)
(* dataavailable task are taken to complete within one tick.               *)
(***************************************************************************)
EXTENDS Integers, Sequences, FiniteSets

\* ---- bounds of the model ------------------------------------------------
MaxStarts == 2      \* startRecording calls explored by Spec
LifeChunks == 1     \* non-empty audio chunks produced, Spec
MaxChunks == 2      \* non-empty audio chunks produced, SpecAudio
MaxTimers == 2      \* flush timeouts pending at one time
MaxCtl == 2         \* pause/resume control frames per connection
MaxTime == 2        \* largest value of recordingTime explored
MaxMsgs == 2        \* inbound socket messages received, SpecDispatch

\* ---- program constants --------------------------------------------------
FlushTicks == 2     \* setTimeout(..., 2000), in ticks of 1000 ms

Sess == 1..MaxStarts
NoSess == 0

SegData == {"d1", "d2"}
InEvents ==
    [type : {"segment"}, v : SegData]
      \cup {[type |-> "status", v |-> "listening"],
            [type |-> "error", v |-> "e1"],
            [type |-> "unknown", v |-> "x"],
            [type |-> "missing", v |-> "x"],
            [type |-> "unparseable", v |-> "x"]}

VARIABLES
    isRecording,            \* useState(false)
    isPaused,               \* useState(false)
    recordingTime,          \* useState(0)
    streamStatus,           \* useState(null)
    mediaRecorderRef,       \* useRef(null): session whose recorder it holds
    streamRef,              \* useRef(null): session whose MediaStream it holds
    transcriptionStreamRef, \* useRef(null): session whose TranscriptionStream it holds
    timerActive,            \* the interval timerRef.current names is armed
    leakedIntervals,        \* armed intervals timerRef no longer names
    pc,                     \* per session: where its startRecording call is
    tracks,                 \* per session: tracks of its MediaStream
    ws,                     \* per session: readyState of its WebSocket
    tsws,                   \* per session: TranscriptionStream.ws is non-null
    rec,                    \* per session: MediaRecorder.state
    pendingFinal,           \* per session: the encoder's final dataavailable is queued
    wire,                   \* per session: frames transmitted on its socket, in order
    inflight,               \* sendAudioChunk calls awaiting arrayBuffer()
    nextChunk,              \* next chunk number the encoders produce
    flushTimers,            \* pending setTimeout(..., 2000) of stopRecording
    unmounted,              \* the effect cleanup has run
    \* history (observation) variables
    stopAge,                \* per session: ticks since stop() ended its recording, -1 if none
    owed,                   \* per session: chunks its encoder produced while its socket was OPEN
    refused,                \* chunks handed to sendAudioChunk of a stream that was not OPEN
    sendThrew,              \* a sendAudioChunk promise rejected (send on a null socket)
    inbound,                \* messages received, in receipt order
    calls,                  \* invocations of the caller's callbacks, in order
    app                     \* App: useState of segments, streamStatus, error

vars == <<isRecording, isPaused, recordingTime, streamStatus, mediaRecorderRef,
          streamRef, transcriptionStreamRef, timerActive, leakedIntervals, pc,
          tracks, ws, tsws, rec, pendingFinal, wire, inflight, nextChunk,
          flushTimers, unmounted, stopAge, owed, refused, sendThrew,
          inbound, calls, app>>

compVars == <<isRecording, isPaused, recordingTime, streamStatus>>
refVars == <<mediaRecorderRef, streamRef, transcriptionStreamRef>>
ivVars == <<timerActive, leakedIntervals>>
chunkVars == <<inflight, nextChunk, owed, refused, sendThrew>>
logVars == <<inbound, calls, app>>

Init ==
    /\ isRecording = FALSE
    /\ isPaused = FALSE
    /\ recordingTime = 0
    /\ streamStatus = "null"
    /\ mediaRecorderRef = NoSess
    /\ streamRef = NoSess
    /\ transcriptionStreamRef = NoSess
    /\ timerActive = FALSE
    /\ leakedIntervals = 0
    /\ pc = [s \in Sess |-> "new"]
    /\ tracks = [s \in Sess |-> "none"]
    /\ ws = [s \in Sess |-> "none"]
    /\ tsws = [s \in Sess |-> FALSE]
    /\ rec = [s \in Sess |-> "none"]
    /\ pendingFinal = [s \in Sess |-> FALSE]
    /\ wire = [s \in Sess |-> <<>>]
    /\ inflight = {}
    /\ nextChunk = 1
    /\ flushTimers = <<>>
    /\ unmounted = FALSE
    /\ stopAge = [s \in Sess |-> -1]
    /\ owed = [s \in Sess |-> {}]
    /\ refused = {}
    /\ sendThrew = FALSE
    /\ inbound = <<>>
    /\ calls = <<>>
    /\ app = [segments |-> <<>>, streamStatus |-> "null", error |-> "null"]

\* ---- helpers ------------------------------------------------------------
Call(cb, arg, s, via) == [cb |-> cb, arg |-> arg, src |-> s, via |-> via]
AudioFrame(c) == [t |-> "audio", c |-> c]
CtlFrame(k) == [t |-> k, c |-> 0]

RECURSIVE CountOf(_, _)
CountOf(q, k) ==
    IF q = <<>> THEN 0
    ELSE (IF Head(q).t = k THEN 1 ELSE 0) + CountOf(Tail(q), k)

CtlCount(q) == CountOf(q, "pause") + CountOf(q, "resume")

\* ---- App: the caller of the component's callbacks -----------------------
\* the speaker field of a segment the service sends: "d1" comes without one
SegSpeaker(d) == IF d = "d1" THEN "" ELSE "A"

\* the element handleSegment builds from a segment
HandleSegment(d) ==
    [speaker |-> IF SegSpeaker(d) = "" THEN "Speaker" ELSE SegSpeaker(d),
     text |-> d]

\* err.message || 'Transcription failed': the event ws.onerror passes has
\* no message
ErrMessage(arg) == IF arg = "wsError" THEN "Transcription failed" ELSE arg

\* faulty variant: handleSegment puts the new element in front
AppCall_Prepends(a, k) ==
    IF k.cb = "onSegment"
    THEN [a EXCEPT !.segments = <<HandleSegment(k.arg)>> \o @, !.error = "null"]
    ELSE IF k.cb = "onStatusChange" THEN [a EXCEPT !.streamStatus = k.arg]
    ELSE [a EXCEPT !.error = ErrMessage(k.arg)]

\* handleSegment / handleStatusChange / handleError on the App's state a
AppCall(a, k) ==
    IF k.cb = "onSegment"
    THEN [a EXCEPT !.segments = Append(@, HandleSegment(k.arg)), !.error = "null"]
    ELSE IF k.cb = "onStatusChange" THEN [a EXCEPT !.streamStatus = k.arg]
    ELSE [a EXCEPT !.error = ErrMessage(k.arg)]

RECURSIVE AppCalls(_, _)
AppCalls(a, q) == IF q = <<>> THEN a ELSE AppCalls(AppCall(a, Head(q)), Tail(q))

\* ---- TranscriptionStream (per stream t) ---------------------------------
\* the test `this.ws && this.ws.readyState === WebSocket.OPEN`
IsOpen(t) == IF t = NoSess THEN FALSE ELSE tsws[t] /\ ws[t] = "OPEN"

\* faulty variant: the entry check tests only `this.ws`, not its readyState
SendAudioChunkGuard_NoReadyState(t) == tsws[t]

\* sendAudioChunk's entry check: the chunk goes on to be encoded
SendAudioChunkGuard(t) == IsOpen(t)

\* faulty variant: the control frame is sent whenever this.ws is set,
\* whatever its readyState
SendControl_NoReadyState(w, t, k) ==
    IF t # NoSess /\ tsws[t] THEN [w EXCEPT ![t] = Append(@, CtlFrame(k))] ELSE w

\* pause() / resume() / stop(): one control frame, only when OPEN
SendControl(w, t, k) ==
    IF IsOpen(t) THEN [w EXCEPT ![t] = Append(@, CtlFrame(k))] ELSE w

\* WebSocket.send of the browser: transmits when OPEN, discards when
\* CLOSING or CLOSED
WsSend(w, t, f) ==
    IF ws[t] = "OPEN" THEN [w EXCEPT ![t] = Append(@, f)] ELSE w

\* close(): ws.close() then this.ws = null; a no-op when this.ws is null
CloseWs(w, t) ==
    IF t # NoSess /\ tsws[t]
    THEN [w EXCEPT ![t] = IF @ \in {"CONNECTING", "OPEN"} THEN "CLOSING" ELSE @]
    ELSE w
CloseTsws(n, t) == IF t # NoSess THEN [n EXCEPT ![t] = FALSE] ELSE n

\* ---- MediaRecorder / MediaStream of the browser -------------------------
Active(s) == rec[s] \in {"recording", "paused"}

\* MediaRecorder.stop() on the recorder of session m and track.stop() on the
\* stream of session r: a recorder that is recording or paused, stopped itself
\* or left with an ended stream, becomes inactive and queues its final
\* dataavailable; an inactive recorder is left alone
RecAfterStop(m, r) ==
    [s \in Sess |-> IF s \in {m, r} /\ Active(s) THEN "inactive" ELSE rec[s]]
FinalAfterStop(m, r) ==
    [s \in Sess |-> pendingFinal[s] \/ (s \in {m, r} /\ Active(s))]

\* track.stop() on every track of the stream of session r
TracksStopped(k, r) == IF r # NoSess THEN [k EXCEPT ![r] = "stopped"] ELSE k

\* ---- elapsed-time interval ----------------------------------------------
TickSources == (IF timerActive THEN 1 ELSE 0) + leakedIntervals

\* setInterval(...) assigned to timerRef.current, the old id not cleared
ArmInterval ==
    /\ timerActive' = TRUE
    /\ leakedIntervals' = leakedIntervals + (IF timerActive THEN 1 ELSE 0)

\* ---- startRecording -----------------------------------------------------
\* the call: getUserMedia is now pending
Start(n) ==
    /\ ~unmounted
    /\ \E s \in 1..n :
         /\ pc[s] = "new"
         /\ \A r \in Sess : r < s => pc[r] # "new"
         /\ pc' = [pc EXCEPT ![s] = "gum"]
    /\ UNCHANGED <<compVars, refVars, ivVars, tracks, ws, tsws, rec, pendingFinal,
                   wire, chunkVars, flushTimers, unmounted, stopAge, logVars>>

\* getUserMedia resolved: streamRef is set, the TranscriptionStream is built
\* and connect() opens a socket
GumOk(s) ==
    /\ pc[s] = "gum"
    /\ streamRef' = s
    /\ tracks' = [tracks EXCEPT ![s] = "live"]
    /\ ws' = [ws EXCEPT ![s] = "CONNECTING"]
    /\ tsws' = [tsws EXCEPT ![s] = TRUE]
    /\ pc' = [pc EXCEPT ![s] = "connect"]
    /\ UNCHANGED <<compVars, mediaRecorderRef, transcriptionStreamRef, ivVars, rec,
                   pendingFinal, wire, chunkVars, flushTimers, unmounted, stopAge,
                   logVars>>

\* faulty variant: the TranscriptionStream is created and connecting before
\* getUserMedia has settled
GumFail_Connects(s) ==
    /\ pc[s] = "gum"
    /\ pc' = [pc EXCEPT ![s] = "captureFailed"]
    /\ calls' = Append(calls, Call("onError", "mic", s, "start"))
    /\ app' = AppCall(app, Call("onError", "mic", s, "start"))
    /\ tsws' = [tsws EXCEPT ![s] = TRUE]
    /\ ws' = [ws EXCEPT ![s] = "CONNECTING"]
    /\ UNCHANGED <<compVars, refVars, ivVars, tracks, rec, pendingFinal,
                   wire, chunkVars, flushTimers, unmounted, stopAge, inbound>>

\* getUserMedia rejected: the catch block reports to the caller
GumFail(s) ==
    /\ pc[s] = "gum"
    /\ pc' = [pc EXCEPT ![s] = "captureFailed"]
    /\ calls' = Append(calls, Call("onError", "mic", s, "start"))
    /\ app' = AppCall(app, Call("onError", "mic", s, "start"))
    /\ UNCHANGED <<compVars, refVars, ivVars, tracks, ws, tsws, rec, pendingFinal,
                   wire, chunkVars, flushTimers, unmounted, stopAge, inbound>>

\* the rest of startRecording once connect() has resolved
StartBody(s) ==
    /\ transcriptionStreamRef' = s
    /\ mediaRecorderRef' = s
    /\ UNCHANGED streamRef
    /\ IF tracks[s] = "live"
       THEN /\ rec' = [rec EXCEPT ![s] = "recording"]
            /\ IF unmounted
               THEN UNCHANGED <<isRecording, isPaused, recordingTime>>
               ELSE /\ isRecording' = TRUE
                    /\ isPaused' = FALSE
                    /\ recordingTime' = 0
            /\ ArmInterval
            /\ pc' = [pc EXCEPT ![s] = "started"]
            /\ UNCHANGED <<calls, app>>
       ELSE \* MediaRecorder.start throws on an inactive stream
            /\ rec' = [rec EXCEPT ![s] = "inactive"]
            /\ pc' = [pc EXCEPT ![s] = "startThrew"]
            /\ calls' = Append(calls, Call("onError", "mic", s, "start"))
            /\ app' = AppCall(app, Call("onError", "mic", s, "start"))
            /\ UNCHANGED <<isRecording, isPaused, recordingTime, ivVars>>

\* ws.onopen: resolve(), and the awaiting startRecording continues
WsOpen(s) ==
    /\ pc[s] = "connect"
    /\ ws[s] = "CONNECTING"
    /\ ws' = [ws EXCEPT ![s] = "OPEN"]
    /\ StartBody(s)
    /\ UNCHANGED <<streamStatus, tracks, tsws, pendingFinal, wire, chunkVars,
                   flushTimers, unmounted, stopAge, inbound>>

\* what startRecording's catch block does when connect() rejected
StartCatch(s) ==
    /\ pc' = [pc EXCEPT ![s] = "connectFailed"]
    /\ UNCHANGED <<tracks, refVars>>

\* faulty variant: ws.onerror settles the promise of connect() with
\* resolve(), so startRecording carries on with a socket that never opened
WsConnectError_Resolves(s) ==
    /\ pc[s] = "connect"
    /\ ws[s] = "CONNECTING"
    /\ ws' = [ws EXCEPT ![s] = "CLOSED"]
    /\ StartBody(s)
    /\ UNCHANGED <<streamStatus, tracks, tsws, pendingFinal, wire, chunkVars,
                   flushTimers, unmounted, stopAge, inbound>>

\* ws.onerror while connecting: this.onError(error), reject(error), and the
\* catch block of startRecording; the failed socket ends CLOSED
WsConnectError(s) ==
    /\ pc[s] = "connect"
    /\ ws[s] = "CONNECTING"
    /\ ws' = [ws EXCEPT ![s] = "CLOSED"]
    /\ calls' = calls \o <<Call("onError", "wsError", s, "transport"),
                           Call("onError", "mic", s, "start")>>
    /\ app' = AppCalls(app, <<Call("onError", "wsError", s, "transport"),
                              Call("onError", "mic", s, "start")>>)
    /\ StartCatch(s)
    /\ UNCHANGED <<compVars, ivVars, tsws, rec, pendingFinal, wire, chunkVars,
                   flushTimers, unmounted, stopAge, inbound>>

\* ---- pauseRecording / resumeRecording -----------------------------------
CtlRoom(t) == IF t = NoSess THEN TRUE ELSE ~IsOpen(t) \/ CtlCount(wire[t]) < MaxCtl

\* faulty variant: the guard of pauseRecording tests only that the recorder
\* is not inactive
PauseGuard_AnyActive == mediaRecorderRef # NoSess /\ Active(mediaRecorderRef)

\* the guard of pauseRecording
PauseGuard == mediaRecorderRef # NoSess /\ rec[mediaRecorderRef] = "recording"

Pause ==
    /\ ~unmounted
    /\ CtlRoom(transcriptionStreamRef)
    /\ IF PauseGuard
       THEN /\ rec' = [rec EXCEPT ![mediaRecorderRef] = "paused"]
            /\ isPaused' = TRUE
            /\ timerActive' = FALSE
            /\ wire' = SendControl(wire, transcriptionStreamRef, "pause")
            /\ UNCHANGED <<isRecording, recordingTime, streamStatus, refVars,
                           leakedIntervals, pc, tracks, ws, tsws, pendingFinal,
                           chunkVars, flushTimers, unmounted, stopAge, logVars>>
       ELSE UNCHANGED vars

ResumeGuard == mediaRecorderRef # NoSess /\ rec[mediaRecorderRef] = "paused"

Resume ==
    /\ ~unmounted
    /\ CtlRoom(transcriptionStreamRef)
    /\ IF ResumeGuard
       THEN /\ rec' = [rec EXCEPT ![mediaRecorderRef] = "recording"]
            /\ isPaused' = FALSE
            /\ ArmInterval
            /\ wire' = SendControl(wire, transcriptionStreamRef, "resume")
            /\ UNCHANGED <<isRecording, recordingTime, streamStatus, refVars, pc,
                           tracks, ws, tsws, pendingFinal, chunkVars, flushTimers,
                           unmounted, stopAge, logVars>>
       ELSE UNCHANGED vars

\* ---- stopRecording ------------------------------------------------------
\* faulty variant: the first half without setIsPaused(false)
StopCapture_KeepsPaused ==
    IF mediaRecorderRef # NoSess
    THEN /\ rec' = RecAfterStop(mediaRecorderRef, streamRef)
         /\ pendingFinal' = FinalAfterStop(mediaRecorderRef, streamRef)
         /\ isRecording' = FALSE
         /\ UNCHANGED isPaused
         /\ timerActive' = FALSE
         /\ tracks' = TracksStopped(tracks, streamRef)
    ELSE UNCHANGED <<rec, pendingFinal, isRecording, isPaused, timerActive, tracks>>

\* first half: `if (mediaRecorderRef.current) { ... }`
StopCapture ==
    IF mediaRecorderRef # NoSess
    THEN /\ rec' = RecAfterStop(mediaRecorderRef, streamRef)
         /\ pendingFinal' = FinalAfterStop(mediaRecorderRef, streamRef)
         /\ isRecording' = FALSE
         /\ isPaused' = FALSE
         /\ timerActive' = FALSE
         /\ tracks' = TracksStopped(tracks, streamRef)
    ELSE UNCHANGED <<rec, pendingFinal, isRecording, isPaused, timerActive, tracks>>

\* the timeout stopRecording arms; `for` remembers the stream that was
\* current when it was armed (the callback itself does not)
NewFlushTimer(t) == [rem |-> FlushTicks, for |-> t]

\* second half: `if (transcriptionStreamRef.current) { stop(); setTimeout }`
StopStream ==
    IF transcriptionStreamRef # NoSess
    THEN /\ wire' = SendControl(wire, transcriptionStreamRef, "stop")
         /\ flushTimers' = Append(flushTimers, NewFlushTimer(transcriptionStreamRef))
    ELSE UNCHANGED <<wire, flushTimers>>

Stop ==
    /\ ~unmounted
    /\ transcriptionStreamRef # NoSess => Len(flushTimers) < MaxTimers
    /\ StopCapture
    /\ StopStream
    /\ stopAge' = IF isRecording /\ transcriptionStreamRef # NoSess
                     /\ stopAge[transcriptionStreamRef] = -1
                  THEN [stopAge EXCEPT ![transcriptionStreamRef] = 0]
                  ELSE stopAge
    /\ UNCHANGED <<recordingTime, streamStatus, refVars, leakedIntervals, pc, ws,
                   tsws, chunkVars, unmounted, logVars>>

\* the callback of stopRecording's setTimeout: closes whatever stream
\* transcriptionStreamRef holds when it runs
FlushBody ==
    IF transcriptionStreamRef # NoSess
    THEN /\ ws' = CloseWs(ws, transcriptionStreamRef)
         /\ tsws' = CloseTsws(tsws, transcriptionStreamRef)
         /\ transcriptionStreamRef' = NoSess
    ELSE UNCHANGED <<ws, tsws, transcriptionStreamRef>>

FlushFire ==
    /\ flushTimers # <<>>
    /\ Head(flushTimers).rem = 0
    /\ flushTimers' = Tail(flushTimers)
    /\ FlushBody
    /\ UNCHANGED <<compVars, mediaRecorderRef, streamRef, ivVars, pc, tracks, rec,
                   pendingFinal, wire, chunkVars, unmounted, stopAge, logVars>>

\* ---- time ---------------------------------------------------------------
\* 1000 ms pass: every armed interval runs its callback once, every pending
\* timeout comes 1000 ms closer.  Due timeouts, queued dataavailable tasks and
\* arrayBuffer() reads complete first.
Tick ==
    /\ \A i \in 1..Len(flushTimers) : flushTimers[i].rem > 0
    /\ inflight = {}
    /\ \A s \in Sess : ~pendingFinal[s]
    /\ IF unmounted
       THEN UNCHANGED recordingTime
       ELSE /\ recordingTime + TickSources <= MaxTime
            /\ recordingTime' = recordingTime + TickSources
    /\ flushTimers' = [i \in 1..Len(flushTimers) |->
                         [flushTimers[i] EXCEPT !.rem = @ - 1]]
    /\ stopAge' = [s \in Sess |->
                     IF stopAge[s] >= 0 /\ stopAge[s] < FlushTicks
                     THEN stopAge[s] + 1 ELSE stopAge[s]]
    /\ \/ flushTimers # <<>>
       \/ TickSources > 0 /\ ~unmounted
       \/ \E s \in Sess : stopAge[s] >= 0 /\ stopAge[s] < FlushTicks
    /\ UNCHANGED <<isRecording, isPaused, streamStatus, refVars, ivVars, pc, tracks,
                   ws, tsws, rec, pendingFinal, wire, chunkVars, unmounted, logVars>>

\* ---- audio chunks -------------------------------------------------------
\* mediaRecorder.ondataavailable for a non-empty chunk c of the encoder of
\* session s, up to the first await inside sendAudioChunk
OnDataAvailable(s, c) ==
    /\ nextChunk' = c + 1
    /\ owed' = IF IsOpen(s) THEN [owed EXCEPT ![s] = @ \cup {c}] ELSE owed
    /\ IF transcriptionStreamRef = NoSess
       THEN UNCHANGED <<inflight, refused>>
       ELSE /\ refused' = IF IsOpen(transcriptionStreamRef)
                          THEN refused ELSE refused \cup {c}
            /\ inflight' = IF SendAudioChunkGuard(transcriptionStreamRef)
                           THEN inflight \cup {[c |-> c, t |-> transcriptionStreamRef]}
                           ELSE inflight
    /\ UNCHANGED sendThrew

\* a timeslice of the recording encoder of session s is delivered
ChunkAvailable(s, n) ==
    /\ rec[s] = "recording"
    /\ nextChunk <= n
    /\ OnDataAvailable(s, nextChunk)
    /\ UNCHANGED <<compVars, refVars, ivVars, pc, tracks, ws, tsws, rec,
                   pendingFinal, wire, flushTimers, unmounted, stopAge, logVars>>

\* the final dataavailable of a halted encoder, carrying data
FinalChunkData(s, n) ==
    /\ pendingFinal[s]
    /\ nextChunk <= n
    /\ pendingFinal' = [pendingFinal EXCEPT ![s] = FALSE]
    /\ OnDataAvailable(s, nextChunk)
    /\ UNCHANGED <<compVars, refVars, ivVars, pc, tracks, ws, tsws, rec, wire,
                   flushTimers, unmounted, stopAge, logVars>>

\* the final dataavailable of a halted encoder with event.data.size = 0
FinalChunkEmpty(s) ==
    /\ pendingFinal[s]
    /\ pendingFinal' = [pendingFinal EXCEPT ![s] = FALSE]
    /\ UNCHANGED <<compVars, refVars, ivVars, pc, tracks, ws, tsws, rec, wire,
                   chunkVars, flushTimers, unmounted, stopAge, logVars>>

\* sendAudioChunk after `await audioBlob.arrayBuffer()`: this.ws.send(...)
SendEncoded(e) ==
    IF tsws[e.t]
    THEN /\ wire' = WsSend(wire, e.t, AudioFrame(e.c))
         /\ UNCHANGED sendThrew
    ELSE /\ sendThrew' = TRUE
         /\ UNCHANGED wire

\* one pending arrayBuffer() read completes; reads of different chunks
\* complete in any order
EncodeDone(e) ==
    /\ e \in inflight
    /\ inflight' = inflight \ {e}
    /\ SendEncoded(e)
    /\ UNCHANGED <<compVars, refVars, ivVars, pc, tracks, ws, tsws, rec,
                   pendingFinal, nextChunk, owed, refused, flushTimers, unmounted,
                   stopAge, logVars>>

\* ---- the socket, driven by the network and the service ------------------
\* the closing handshake of a socket close() was called on completes
WsClosed(s) ==
    /\ ws[s] = "CLOSING"
    /\ ws' = [ws EXCEPT ![s] = "CLOSED"]
    /\ UNCHANGED <<compVars, refVars, ivVars, pc, tracks, tsws, rec, pendingFinal,
                   wire, chunkVars, flushTimers, unmounted, stopAge, logVars>>

\* the service closes an open socket: ws.onclose only logs
ServerClose(s) ==
    /\ ws[s] = "OPEN"
    /\ ws' = [ws EXCEPT ![s] = "CLOSED"]
    /\ UNCHANGED <<compVars, refVars, ivVars, pc, tracks, tsws, rec, pendingFinal,
                   wire, chunkVars, flushTimers, unmounted, stopAge, logVars>>

\* faulty variant: the onError wrapper of the component also ends the
\* recording display when the socket fails
TransportError_Unwinds(s) ==
    /\ ws[s] = "OPEN"
    /\ ws' = [ws EXCEPT ![s] = "CLOSED"]
    /\ calls' = Append(calls, Call("onError", "wsError", s, "transport"))
    /\ app' = AppCall(app, Call("onError", "wsError", s, "transport"))
    /\ isRecording' = FALSE
    /\ isPaused' = FALSE
    /\ UNCHANGED <<recordingTime, streamStatus, refVars, ivVars, pc, tracks, tsws,
                   rec, pendingFinal, wire, chunkVars, flushTimers, unmounted,
                   stopAge, inbound>>

\* ws.onerror on an open socket: this.onError(error); reject() has no effect
\* on the settled promise; the socket ends CLOSED
TransportError(s) ==
    /\ ws[s] = "OPEN"
    /\ ws' = [ws EXCEPT ![s] = "CLOSED"]
    /\ calls' = Append(calls, Call("onError", "wsError", s, "transport"))
    /\ app' = AppCall(app, Call("onError", "wsError", s, "transport"))
    /\ UNCHANGED <<compVars, refVars, ivVars, pc, tracks, tsws, rec, pendingFinal,
                   wire, chunkVars, flushTimers, unmounted, stopAge, inbound>>

\* faulty variant: onSegment is handed message.type instead of message.data
Dispatch_WrongField(s, ev) ==
    IF ev.type = "segment" THEN <<Call("onSegment", ev.type, s, "msg")>>
    ELSE IF ev.type = "status" THEN <<Call("onStatusChange", ev.v, s, "msg")>>
    ELSE IF ev.type = "error" THEN <<Call("onError", ev.v, s, "msg")>>
    ELSE <<>>

\* faulty variant: the last branch does not test the type, so every other
\* message reaches onError
Dispatch_FallThrough(s, ev) ==
    IF ev.type = "segment" THEN <<Call("onSegment", ev.v, s, "msg")>>
    ELSE IF ev.type = "status" THEN <<Call("onStatusChange", ev.v, s, "msg")>>
    ELSE <<Call("onError", ev.v, s, "msg")>>

\* faulty variant: a payload JSON.parse rejects is reported through onError
\* instead of being logged
Dispatch_ReportsParseError(s, ev) ==
    IF ev.type = "segment" THEN <<Call("onSegment", ev.v, s, "msg")>>
    ELSE IF ev.type = "status" THEN <<Call("onStatusChange", ev.v, s, "msg")>>
    ELSE IF ev.type \in {"error", "unparseable"} THEN <<Call("onError", ev.v, s, "msg")>>
    ELSE <<>>

\* ws.onmessage: what the message makes the stream call, as a sequence of
\* callback invocations
Dispatch(s, ev) ==
    IF ev.type = "segment" THEN <<Call("onSegment", ev.v, s, "msg")>>
    ELSE IF ev.type = "status" THEN <<Call("onStatusChange", ev.v, s, "msg")>>
    ELSE IF ev.type = "error" THEN <<Call("onError", ev.v, s, "msg")>>
    ELSE <<>>

\* a message arrives on the socket of session s
Receive(s, ev, n) ==
    /\ ws[s] \in {"OPEN", "CLOSING"}
    /\ Len(inbound) < n
    /\ inbound' = Append(inbound, [src |-> s, ev |-> ev])
    /\ calls' = calls \o Dispatch(s, ev)
    /\ app' = AppCalls(app, Dispatch(s, ev))
    /\ streamStatus' = IF ev.type = "status" /\ ~unmounted THEN ev.v ELSE streamStatus
    /\ UNCHANGED <<isRecording, isPaused, recordingTime, refVars, ivVars, pc, tracks,
                   ws, tsws, rec, pendingFinal, wire, chunkVars, flushTimers,
                   unmounted, stopAge>>

\* ---- unmount ------------------------------------------------------------
\* the cleanup of the mount effect
Unmount ==
    /\ ~unmounted
    /\ unmounted' = TRUE
    /\ timerActive' = FALSE
    /\ tracks' = TracksStopped(tracks, streamRef)
    /\ rec' = RecAfterStop(NoSess, streamRef)
    /\ pendingFinal' = FinalAfterStop(NoSess, streamRef)
    /\ ws' = CloseWs(ws, transcriptionStreamRef)
    /\ tsws' = CloseTsws(tsws, transcriptionStreamRef)
    /\ UNCHANGED <<compVars, refVars, leakedIntervals, pc, wire, chunkVars,
                   flushTimers, stopAge, logVars>>

\* ---- App.handleClear ----------------------------------------------------
\* the Clear button of the transcript card
AppClear ==
    /\ app' = [segments |-> <<>>, streamStatus |-> "null", error |-> "null"]
    /\ UNCHANGED <<compVars, refVars, ivVars, pc, tracks, ws, tsws, rec,
                   pendingFinal, wire, chunkVars, flushTimers, unmounted,
                   stopAge, inbound, calls>>

\* ---- specifications -----------------------------------------------------
\* The recording lifecycle with overlapping sessions: every call of the
\* component, the outcomes of getUserMedia and connect(), the timers.
Next ==
    \/ Start(MaxStarts)
    \/ \E s \in Sess : GumOk(s)
    \/ \E s \in Sess : GumFail(s)
    \/ \E s \in Sess : WsOpen(s)
    \/ \E s \in Sess : WsConnectError(s)
    \/ Pause
    \/ Resume
    \/ Stop
    \/ FlushFire
    \/ Tick
    \/ \E s \in Sess : ChunkAvailable(s, LifeChunks)
    \/ \E s \in Sess : FinalChunkData(s, LifeChunks)
    \/ \E s \in Sess : FinalChunkEmpty(s)
    \/ \E e \in inflight : EncodeDone(e)
    \/ \E s \in Sess : WsClosed(s)

Spec == Init /\ [][Next]_vars

\* The audio path of one recording session: the lifecycle, socket failures
\* after open and unmount, with the encoder producing chunks.
NextAudio ==
    \/ Start(1)
    \/ \E s \in Sess : GumOk(s)
    \/ \E s \in Sess : GumFail(s)
    \/ \E s \in Sess : WsOpen(s)
    \/ \E s \in Sess : WsConnectError(s)
    \/ Pause
    \/ Resume
    \/ Stop
    \/ FlushFire
    \/ Tick
    \/ \E s \in Sess : ChunkAvailable(s, MaxChunks)
    \/ \E s \in Sess : FinalChunkData(s, MaxChunks)
    \/ \E s \in Sess : FinalChunkEmpty(s)
    \/ \E e \in inflight : EncodeDone(e)
    \/ \E s \in Sess : WsClosed(s)
    \/ \E s \in Sess : ServerClose(s)
    \/ \E s \in Sess : TransportError(s)
    \/ Unmount

SpecAudio == Init /\ [][NextAudio]_vars

\* The inbound path of one recording session: messages of the service
\* arriving on the socket during recording and the flush window.
NextDispatch ==
    \/ Start(1)
    \/ \E s \in Sess : GumOk(s)
    \/ \E s \in Sess : GumFail(s)
    \/ \E s \in Sess : WsOpen(s)
    \/ \E s \in Sess : WsConnectError(s)
    \/ Stop
    \/ FlushFire
    \/ Tick
    \/ \E s \in Sess : FinalChunkEmpty(s)
    \/ \E s \in Sess : WsClosed(s)
    \/ \E s \in Sess : ServerClose(s)
    \/ \E s \in Sess : TransportError(s)
    \/ \E s \in Sess, ev \in InEvents : Receive(s, ev, MaxMsgs)
    \/ Unmount

SpecDispatch == Init /\ [][NextDispatch]_vars

\* The calls of the component with two overlapping start() calls and no
\* encoder output: start, pause, resume and stop in every recording state,
\* the outcomes of getUserMedia and connect(), socket errors after open.
NextCalls ==
    \/ Start(2)
    \/ \E s \in Sess : GumOk(s)
    \/ \E s \in Sess : GumFail(s)
    \/ \E s \in Sess : WsOpen(s)
    \/ \E s \in Sess : WsConnectError(s)
    \/ Pause
    \/ Resume
    \/ Stop
    \/ FlushFire
    \/ Tick
    \/ \E s \in Sess : FinalChunkEmpty(s)
    \/ \E s \in Sess : WsClosed(s)
    \/ \E s \in Sess : TransportError(s)

SpecCalls == Init /\ [][NextCalls]_vars

\* connect() of two overlapping start() calls: the socket opens or fails,
\* fails or is closed by the service after it opened, and the session is
\* stopped and closed.  A connecting WebSocket always ends by firing `open`
\* or `error`.
NextConnect ==
    \/ Start(2)
    \/ \E s \in Sess : GumOk(s)
    \/ \E s \in Sess : GumFail(s)
    \/ \E s \in Sess : WsOpen(s)
    \/ \E s \in Sess : WsConnectError(s)
    \/ Stop
    \/ FlushFire
    \/ Tick
    \/ \E s \in Sess : FinalChunkEmpty(s)
    \/ \E s \in Sess : WsClosed(s)
    \/ \E s \in Sess : ServerClose(s)
    \/ \E s \in Sess : TransportError(s)

SpecConnect ==
    /\ Init /\ [][NextConnect]_vars
    /\ \A s \in Sess : WF_vars(WsOpen(s) \/ WsConnectError(s))

\* Errors during one recording session: the socket fails after it opened or
\* the service sends messages, `error` among them, while the session is
\* recording, paused or in its flush window.
NextErrors ==
    \/ Start(1)
    \/ \E s \in Sess : GumOk(s)
    \/ \E s \in Sess : GumFail(s)
    \/ \E s \in Sess : WsOpen(s)
    \/ \E s \in Sess : WsConnectError(s)
    \/ Pause
    \/ Resume
    \/ Stop
    \/ FlushFire
    \/ Tick
    \/ \E s \in Sess : FinalChunkEmpty(s)
    \/ \E s \in Sess : WsClosed(s)
    \/ \E s \in Sess : TransportError(s)
    \/ \E s \in Sess, ev \in InEvents : Receive(s, ev, MaxMsgs)

SpecErrors == Init /\ [][NextErrors]_vars

\* The transcript the App keeps over one recording session: messages of
\* the service, failures of start() and of the socket, stop() and the
\* user's Clear.
NextTranscript ==
    \/ Start(1)
    \/ \E s \in Sess : GumOk(s)
    \/ \E s \in Sess : GumFail(s)
    \/ \E s \in Sess : WsOpen(s)
    \/ \E s \in Sess : WsConnectError(s)
    \/ Stop
    \/ FlushFire
    \/ Tick
    \/ \E s \in Sess : FinalChunkEmpty(s)
    \/ \E s \in Sess : WsClosed(s)
    \/ \E s \in Sess : TransportError(s)
    \/ \E s \in Sess, ev \in InEvents : Receive(s, ev, MaxMsgs)
    \/ AppClear

SpecTranscript == Init /\ [][NextTranscript]_vars

\* ---- observed quantities ------------------------------------------------
\* the recording state of the specification, read off the component
RecState ==
    IF isRecording THEN (IF isPaused THEN "Paused" ELSE "Recording")
    ELSE IF flushTimers # <<>> THEN "Stopping" ELSE "Idle"

\* some acquired MediaStream still has un-stopped tracks
LiveHandle == \E s \in Sess : tracks[s] = "live"

StartPending == \E s \in Sess : pc[s] \in {"gum", "connect"}

\* close() has been called on the stream of session s
ClosedByController(s) == ws[s] # "none" /\ ~tsws[s]

AudioChunks(q) == {q[i].c : i \in {j \in 1..Len(q) : q[j].t = "audio"}}

\* ---- claims -------------------------------------------------------------

\* C1: start() is atomic.  Whenever the device was acquired and connect()
\* then fails, at the end of that start() the tracks of the acquired stream
\* are stopped, its socket is not open, and the recording state is Idle.
C1_StartAtomic ==
    [][\A s \in Sess :
          (pc[s] = "connect" /\ pc'[s] = "connectFailed")
             => /\ tracks'[s] # "live"
                /\ ws'[s] \notin {"CONNECTING", "OPEN"}
                /\ RecState' = "Idle"]_vars

\* C2: a live capture handle exists if and only if the recording state is
\* not Idle; every acquired stream is released by the time the state is Idle
\* again.  Read in the states where no start() is still in flight.
C2_HandleIffNotIdle ==
    ~StartPending => (LiveHandle <=> RecState # "Idle")

\* C3: after stop() on a session that was Recording or Paused, the
\* controller does not close that session's connection before the flush
\* window (FlushTicks) has elapsed since that stop(); unmount excluded.
C3_FlushWindowRespected ==
    [][\A s \in Sess :
          (stopAge[s] >= 0 /\ tsws[s] /\ ~tsws'[s] /\ ~unmounted')
             => stopAge[s] >= FlushTicks]_vars

\* C4: stop() is idempotent: for one session at most one flush timer is
\* armed and at most one `stop` control message is sent on its connection.
C4_StopIdempotent ==
    \A s \in Sess :
       /\ CountOf(wire[s], "stop") <= 1
       /\ Cardinality({i \in 1..Len(flushTimers) : flushTimers[i].for = s}) <= 1

\* C5: once the flush timer armed by stop() of a session has fired, the
\* connection of that session has been closed.
C5_ClosedAfterFlush ==
    [][(flushTimers # <<>> /\ Len(flushTimers') < Len(flushTimers))
          => ws'[Head(flushTimers).for] \in {"CLOSING", "CLOSED"}]_vars

\* C6: on every socket, audio frames are sent in the order in which the
\* chunks were produced (chunk numbers are given in production order).
C6_AudioInProductionOrder ==
    \A s \in Sess : \A i, j \in 1..Len(wire[s]) :
       (i < j /\ wire[s][i].t = "audio" /\ wire[s][j].t = "audio")
          => wire[s][i].c < wire[s][j].c

\* C7: a frame is transmitted on a socket only while that socket is OPEN,
\* and a chunk handed to sendAudioChunk of a stream that is not OPEN is
\* neither kept for encoding nor ever transmitted on any socket.
C7_RefusedNeverSent ==
    /\ \A s \in Sess : refused \cap AudioChunks(wire[s]) = {}
    /\ refused \cap {e.c : e \in inflight} = {}
C7_WriteOnlyWhenOpen ==
    \A s \in Sess : Len(wire'[s]) > Len(wire[s]) => ws[s] = "OPEN"
C7_DroppedUnlessOpen == []C7_RefusedNeverSent /\ [][C7_WriteOnlyWhenOpen]_vars

\* C7 witness: one chunk was transmitted while the socket was OPEN and a
\* later chunk was handed over after the socket had left OPEN
C7_Witness ==
    \E s \in Sess : /\ AudioChunks(wire[s]) # {}
                    /\ refused # {}
                    /\ ws[s] = "CLOSED"

\* C8: no audio is lost at shutdown.  Every non-empty chunk an encoder
\* produced while its session's connection was OPEN has been transmitted
\* exactly once on that connection by the time the controller closes it.
C8_NoAudioLost ==
    \A s \in Sess :
       ClosedByController(s) =>
          \A c \in owed[s] :
             Cardinality({i \in 1..Len(wire[s]) :
                             wire[s][i] = AudioFrame(c)}) = 1

\* the callback each well-formed inbound message is due
DueCallback(ev) ==
    IF ev.type = "segment" THEN "onSegment"
    ELSE IF ev.type = "status" THEN "onStatusChange" ELSE "onError"

RECURSIVE SegmentsReceived(_, _)
SegmentsReceived(q, s) ==
    IF q = <<>> THEN <<>>
    ELSE (IF Head(q).src = s /\ Head(q).ev.type = "segment"
          THEN <<Head(q).ev.v>> ELSE <<>>) \o SegmentsReceived(Tail(q), s)

RECURSIVE SegmentsDelivered(_, _)
SegmentsDelivered(q, s) ==
    IF q = <<>> THEN <<>>
    ELSE (IF Head(q).src = s /\ Head(q).cb = "onSegment"
          THEN <<Head(q).arg>> ELSE <<>>) \o SegmentsDelivered(Tail(q), s)

\* C9: for the segment events E1..En received on a session's connection,
\* onSegment is invoked for E1..En in that order, each with the event's data
\* unmodified.
C9_SegmentsInOrder ==
    \A s \in Sess : SegmentsDelivered(calls, s) = SegmentsReceived(inbound, s)

\* C9 witness: two different segments were received on the connection of a
\* session that stop() has ended, and both were delivered
C9_Witness ==
    \E s \in Sess :
       /\ Len(SegmentsDelivered(calls, s)) >= 2
       /\ SegmentsDelivered(calls, s)[1] # SegmentsDelivered(calls, s)[2]
       /\ stopAge[s] >= 1

RECURSIVE DueCalls(_)
DueCalls(q) ==
    IF q = <<>> THEN <<>>
    ELSE (IF Head(q).ev.type \in {"segment", "status", "error"}
          THEN <<Call(DueCallback(Head(q).ev), Head(q).ev.v, Head(q).src, "msg")>>
          ELSE <<>>) \o DueCalls(Tail(q))

MsgCalls == SelectSeq(calls, LAMBDA k : k.via = "msg")

\* C10: over any interleaved inbound sequence of segment, status and error
\* events the caller's callbacks are invoked once per event, in receipt order
\* across the three callback types.
C10_OncePerEventInOrder == MsgCalls = DueCalls(inbound)

\* C10 witness: events of two different types were received and dispatched
C10_Witness ==
    /\ Len(MsgCalls) >= 2
    /\ MsgCalls[1].cb # MsgCalls[2].cb

\* C11: under every sequence of start, pause, resume and stop calls the
\* recording state is one of Idle, Recording, Paused, Stopping and the two
\* UI flags agree with the encoder: paused is never shown without recording,
\* Paused means the current encoder is paused and Recording that it records,
\* so that pause(), resume() and stop() never act on an encoder in a state
\* the call is not defined for.
C11_StateDefined ==
    /\ RecState \in {"Idle", "Recording", "Paused", "Stopping"}
    /\ isPaused => isRecording
    /\ RecState = "Paused"
          => mediaRecorderRef # NoSess /\ rec[mediaRecorderRef] = "paused"
    /\ RecState = "Recording"
          => mediaRecorderRef # NoSess /\ rec[mediaRecorderRef] = "recording"

\* a second start() is awaiting its connection while the first session is
\* Paused
C11_Witness ==
    /\ RecState = "Paused"
    /\ \E s \in Sess : pc[s] = "connect"
    /\ \E s \in Sess : pc[s] = "started"

\* a step in which pauseRecording / resumeRecording went past its guard: the
\* encoder changed to paused / back to recording, or a control frame of
\* that kind was written to a socket
PauseActed ==
    \E s \in Sess :
       \/ rec[s] # "paused" /\ rec'[s] = "paused"
       \/ wire'[s] = Append(wire[s], CtlFrame("pause"))
ResumeActed ==
    \E s \in Sess :
       \/ rec[s] = "paused" /\ rec'[s] = "recording"
       \/ wire'[s] = Append(wire[s], CtlFrame("resume"))

\* C12: pause() has an effect only in state Recording and resume() only in
\* state Paused; called in any other state (Idle, Stopping, the other of the
\* two, or while a start() is pending) they change neither the recording
\* state, nor the timer, nor the encoder, and write to no socket.
C12_GuardedNoOps ==
    [][/\ PauseActed => RecState = "Recording"
       /\ ResumeActed => RecState = "Paused"]_vars

\* pause and resume have both acted in a session that is now in its flush
\* window, where both guards are closed, while another start() is pending
C12_Witness ==
    /\ RecState = "Stopping"
    /\ mediaRecorderRef # NoSess /\ ~PauseGuard /\ ~ResumeGuard
    /\ StartPending
    /\ \E s \in Sess : CountOf(wire[s], "pause") > 0 /\ CountOf(wire[s], "resume") > 0

\* C13: stop() in state Idle is a no-op.  No step that starts in Idle with
\* no start() in flight writes a `stop` frame, arms a flush timer, stops a
\* live track or stops an active encoder (in these runs only stopRecording
\* does any of the four).
C13_StopInIdleNoOp ==
    [][(RecState = "Idle" /\ ~StartPending)
          => /\ \A s \in Sess : wire'[s] # Append(wire[s], CtlFrame("stop"))
             /\ Len(flushTimers') <= Len(flushTimers)
             /\ \A s \in Sess : tracks[s] = "live" => tracks'[s] = "live"
             /\ \A s \in Sess : Active(s) => Active(s)']_vars

\* C14: start() acts only in Idle, so at any time the controller holds at
\* most one stream with live tracks, at most one active encoder and at most
\* one connection it has not closed.
C14_OneSessionAtATime ==
    /\ Cardinality({s \in Sess : tracks[s] = "live"}) <= 1
    /\ Cardinality({s \in Sess : Active(s)}) <= 1
    /\ Cardinality({s \in Sess : tsws[s] /\ ws[s] \in {"CONNECTING", "OPEN"}}) <= 1

\* the reports startRecording's catch block has made for session s
StartReports(s) ==
    {i \in 1..Len(calls) : calls[i].src = s /\ calls[i].via = "start"}

\* C15: when getUserMedia rejects, that start() reports the capture failure
\* to the caller once, leaves the recording state as it was (Idle when no
\* other session exists), and for that start() no stream is held, no
\* TranscriptionStream exists and no socket was ever opened.
C15_CaptureDenied ==
    /\ [](\A s \in Sess :
            pc[s] = "captureFailed"
               => /\ tracks[s] = "none" /\ ws[s] = "none" /\ ~tsws[s]
                  /\ rec[s] = "none"
                  /\ Cardinality(StartReports(s)) = 1
                  /\ \A i \in StartReports(s) :
                        calls[i].cb = "onError" /\ calls[i].arg = "mic")
    /\ []((\A s \in Sess : pc[s] \in {"new", "captureFailed"})
             => RecState = "Idle")
    /\ [][\A s \in Sess :
             (pc[s] = "gum" /\ pc'[s] = "captureFailed")
                => /\ RecState' = RecState
                   /\ UNCHANGED <<compVars, refVars, ivVars>>]_vars

\* a start() has failed on the device and reported it; the state is Idle
\* and no socket exists
C15_Witness ==
    /\ \E s \in Sess : pc[s] = "captureFailed" /\ StartReports(s) # {}
    /\ RecState = "Idle"
    /\ \A s \in Sess : ws[s] = "none"

\* C16: when the stream was acquired and connect() then rejects, what
\* start() reports to its caller is a connection failure: the report of the
\* catch block is not the one it makes when the microphone is unavailable.
C16_ConnectFailureDistinct ==
    \A s \in Sess :
       pc[s] = "connectFailed"
          => \A i \in StartReports(s) : calls[i].arg # "mic"

\* C17: recordingTime does not change while the state is Paused, and
\* neither pause() nor resume() changes it: counting continues after
\* resume() from the value it had at pause().
C17_PausedTimeFrozen ==
    [][/\ (RecState = "Paused" /\ RecState' = "Paused")
            => recordingTime' = recordingTime
       /\ (PauseActed \/ ResumeActed) => recordingTime' = recordingTime]_vars

\* C18: once the component is unmounted, in whichever phase that happens,
\* no elapsed-time interval is running, no acquired stream has live tracks
\* and no socket is connecting or open, and this stays so: a start() that
\* was in flight at unmount acquires none of them afterwards.
C18_TeardownReleasesAll ==
    unmounted
       => /\ TickSources = 0
          /\ ~LiveHandle
          /\ \A s \in Sess : ws[s] \notin {"CONNECTING", "OPEN"}

\* the promise of connect() for session s: pending, resolved or rejected
ConnectResolved(s) == pc[s] \in {"started", "startThrew"}
ConnectRejected(s) == pc[s] = "connectFailed"

\* C19: connect() takes the socket from absent to CONNECTING and from there
\* to OPEN, and settles its promise exactly once: it resolves in the step
\* the socket opens, rejects in the step a transport error ends the
\* connecting socket, stays settled whatever happens to the socket
\* afterwards, and does not stay pending for ever.
C19_ConnectSettlesOnce ==
    /\ [][\A s \in Sess :
             /\ (ws[s] = "none" /\ ws'[s] # "none")
                   => ws'[s] = "CONNECTING" /\ pc'[s] = "connect"
             /\ (ws[s] # "OPEN" /\ ws'[s] = "OPEN")
                   => ws[s] = "CONNECTING" /\ pc[s] = "connect" /\ ConnectResolved(s)'
             /\ (pc[s] = "connect" /\ ConnectResolved(s)')
                   => ws[s] = "CONNECTING" /\ ws'[s] = "OPEN"
             /\ (pc[s] = "connect" /\ ConnectRejected(s)')
                   => ws[s] = "CONNECTING" /\ ws'[s] = "CLOSED"
             /\ (ConnectResolved(s) \/ ConnectRejected(s)) => pc'[s] = pc[s]]_vars
    /\ \A s \in Sess :
          pc[s] = "connect" ~> (ConnectResolved(s) \/ ConnectRejected(s))

\* one connect() has resolved and its socket has since failed; the other
\* one has rejected
C19_Witness ==
    \E s, r \in Sess :
       /\ ConnectResolved(s) /\ ws[s] = "CLOSED" /\ tsws[s]
       /\ ConnectRejected(r)

\* the step reports an error of session s to the caller after connect() of
\* s had resolved: through ws.onerror, or through an `error` message
ErrorReported(s, via) ==
    /\ ConnectResolved(s)
    /\ Len(calls') = Len(calls) + 1
    /\ calls'[Len(calls')].cb = "onError"
    /\ calls'[Len(calls')].src = s
    /\ calls'[Len(calls')].via = via

\* C20: a socket error after open and an `error` message of the service
\* each reach the caller through onError; the step changes neither the
\* recording state nor the elapsed time, the interval, the encoder, the
\* tracks, the refs or the flush timers; an `error` message leaves the
\* socket as it was, and every message received, also after an error, is
\* dispatched.
C20_ErrorsDoNotUnwind ==
    [][\A s \in Sess :
          /\ (ws[s] = "OPEN" /\ ws'[s] = "CLOSED") => ErrorReported(s, "transport")
          /\ (Len(inbound') > Len(inbound) /\ inbound'[Len(inbound')].src = s)
                => /\ calls' = calls \o DueCalls(<<inbound'[Len(inbound')]>>)
                   /\ inbound'[Len(inbound')].ev.type = "error"
                         <=> ErrorReported(s, "msg")
          /\ (ErrorReported(s, "transport") \/ ErrorReported(s, "msg"))
                => /\ RecState' = RecState
                   /\ UNCHANGED <<isRecording, isPaused, recordingTime, ivVars,
                                   refVars, rec, tracks, flushTimers>>
          /\ ErrorReported(s, "msg") => UNCHANGED <<ws, tsws>>]_vars

\* in a Paused session the service has reported an error, a segment that
\* arrived after it was delivered, and then the socket failed
C20_Witness ==
    /\ RecState = "Paused"
    /\ Len(calls) = 3
    /\ calls[1].cb = "onError" /\ calls[1].via = "msg"
    /\ calls[2].cb = "onSegment"
    /\ calls[3].cb = "onError" /\ calls[3].via = "transport"

\* a payload that does not parse, or parses to a message whose type is
\* none of the three the stream knows, or has no type
Malformed(ev) == ev.type \notin {"segment", "status", "error"}

\* the message received in this step, when there is one
Received == inbound'[Len(inbound')]

\* C21: a malformed payload invokes no callback and changes nothing but the
\* record of what was received (the socket stays as it was, nothing is
\* thrown out of onmessage); a well-formed message that arrives after a
\* malformed one on the same socket is dispatched to its callback.
C21_MalformedDiscarded ==
    [][Len(inbound') > Len(inbound)
          => /\ Malformed(Received.ev)
                   => UNCHANGED <<calls, compVars, refVars, ivVars, pc, tracks, ws,
                                  tsws, rec, pendingFinal, wire, chunkVars,
                                  flushTimers, unmounted, stopAge>>
             /\ (/\ ~Malformed(Received.ev)
                 /\ \E i \in 1..Len(inbound) :
                       Malformed(inbound[i].ev) /\ inbound[i].src = Received.src)
                   => calls' = Append(calls, Call(DueCallback(Received.ev),
                                                  Received.ev.v, Received.src, "msg"))]_vars

\* a payload that did not parse was received, then a segment, and the only
\* callback invoked is onSegment for that segment
C21_Witness ==
    /\ Len(inbound) = 2
    /\ inbound[1].ev.type = "unparseable"
    /\ inbound[2].ev.type = "segment"
    /\ Len(calls) = 1 /\ calls[1].cb = "onSegment" /\ calls[1].arg = inbound[2].ev.v

\* the step writes control frame k to the socket of session s
CtlSent(s, k) == wire'[s] = Append(wire[s], CtlFrame(k))

\* C22: pause(), resume() and stop() of a stream whose socket is not OPEN
\* write nothing.  A control frame is written only to a socket that is OPEN
\* and only in the step of the call that asks for it (no frame is kept and
\* sent later), and a call made while the stream in the ref is not OPEN
\* leaves every socket's frames as they were.
C22_ControlDroppedUnlessOpen ==
    [][/\ \A s \in Sess :
            /\ (CtlSent(s, "pause") \/ CtlSent(s, "resume") \/ CtlSent(s, "stop"))
                  => IsOpen(s) /\ transcriptionStreamRef = s
            /\ CtlSent(s, "pause") => (~isPaused /\ isPaused')
            /\ CtlSent(s, "resume") => (isPaused /\ ~isPaused')
            /\ CtlSent(s, "stop") => Len(flushTimers') = Len(flushTimers) + 1
       /\ ((isPaused' # isPaused \/ Len(flushTimers') > Len(flushTimers))
              /\ ~IsOpen(transcriptionStreamRef))
            => wire' = wire]_vars

\* the socket failed during recording and stop() was called afterwards:
\* its flush timer is pending and no frame was ever written to the socket
C22_Witness ==
    \E s \in Sess :
       /\ transcriptionStreamRef = s /\ ws[s] = "CLOSED" /\ tsws[s]
       /\ flushTimers # <<>>
       /\ \E i \in 1..Len(calls) : calls[i].via = "transport"
       /\ wire[s] = <<>>

\* one TranscriptionStream as close() sees it: the readyState of its socket,
\* whether this.ws is set, and whether the call threw
StreamOf(s) == [rs |-> ws[s], has |-> tsws[s], threw |-> FALSE]

\* faulty variant: close() without the `if (this.ws)` test, which throws on
\* a stream whose this.ws is null
TSClose_NoGuard(c) ==
    IF c.has
    THEN [rs |-> IF c.rs \in {"CONNECTING", "OPEN"} THEN "CLOSING" ELSE c.rs,
          has |-> FALSE, threw |-> c.threw]
    ELSE [c EXCEPT !.threw = TRUE]

\* close(): `if (this.ws) { this.ws.close(); this.ws = null }`; WebSocket
\* close() starts the closing handshake of a connecting or open socket and
\* does nothing to one that is closing or closed
TSClose(c) ==
    IF c.has
    THEN [rs |-> IF c.rs \in {"CONNECTING", "OPEN"} THEN "CLOSING" ELSE c.rs,
          has |-> FALSE, threw |-> c.threw]
    ELSE c

\* isConnected() of a stream
IsConnected(c) == c.has /\ c.rs = "OPEN"

\* C23: close() is idempotent.  On every stream the component can hold,
\* close() does not throw; on one that was never connected or was closed
\* before it changes nothing; on one whose socket is already closed it
\* leaves the socket and isConnected() as they are; and a second and third
\* close() leave what the first one left.  The component's calls of close()
\* (flush timer, unmount) do to the socket what this close() does.
C23_CloseIdempotent ==
    \A s \in Sess :
       LET c == StreamOf(s) IN
       /\ ~TSClose(c).threw
       /\ ~c.has => TSClose(c) = c
       /\ c.rs \in {"none", "CLOSED"}
             => /\ TSClose(c).rs = c.rs
                /\ IsConnected(TSClose(c)) = IsConnected(c)
       /\ TSClose(TSClose(c)) = TSClose(c)
       /\ TSClose(TSClose(TSClose(c))) = TSClose(c)
       /\ CloseWs(ws, s)[s] = TSClose(c).rs
       /\ CloseTsws(tsws, s)[s] = TSClose(c).has

\* unmount has closed the stream in the ref while the flush timer of stop()
\* is still pending: its callback will call close() on the same stream again
C23_Witness ==
    /\ unmounted
    /\ flushTimers # <<>>
    /\ transcriptionStreamRef # NoSess
    /\ ~tsws[transcriptionStreamRef]
    /\ ws[transcriptionStreamRef] \in {"CLOSING", "CLOSED"}

\* C24: the App's segments sequence is append-only.  A step either leaves
\* it alone, or is the receipt of a segment and appends the element built
\* from it at the tail, or is the user's Clear, which touches nothing of
\* the recorder, the sockets or the callbacks; every segment received is
\* appended.  start(), stop(), status and error events never change it.
C24_TranscriptAppendOnly ==
    [][/\ \/ app'.segments = app.segments
          \/ /\ Len(inbound') > Len(inbound)
             /\ Received.ev.type = "segment"
          \/ /\ app'.segments = <<>>
             /\ UNCHANGED <<compVars, refVars, ivVars, pc, tracks, ws, tsws, rec,
                            pendingFinal, wire, chunkVars, flushTimers, unmounted,
                            stopAge, inbound, calls>>
       /\ (Len(inbound') > Len(inbound) /\ Received.ev.type = "segment")
             => app'.segments = Append(app.segments, HandleSegment(Received.ev.v))]_vars

\* two different segments were received and appended in that order, with
\* an error reported and stop() called in the session
C24_Witness ==
    /\ Len(app.segments) = 2
    /\ app.segments[1] # app.segments[2]
    /\ app.segments[2] = HandleSegment(inbound[Len(inbound)].ev.v)
    /\ \E i \in 1..Len(calls) : calls[i].cb = "onError"
    /\ flushTimers # <<>>

\* C25: at most one elapsed-time interval is armed at any time; exactly one
\* while the state is Recording, so that recordingTime advances by one per
\* second, and none while it is Idle.
C25_OneTickSource ==
    /\ TickSources <= 1
    /\ RecState = "Recording" => TickSources = 1
    /\ RecState = "Idle" => TickSources = 0

\* C26: `stop` is the last frame on a connection: no audio frame and no
\* pause or resume frame follows a `stop`, the final chunk of the halted
\* encoder included.
C26_StopIsLastFrame ==
    \A s \in Sess :
       \A i, j \in 1..Len(wire[s]) :
          (i < j /\ wire[s][i].t = "stop") => wire[s][j].t = "stop"

\* C27: the flush timer that stop() armed for one session closes only that
\* session's connection: a step that closes a stream or clears
\* transcriptionStreamRef is the firing of the timer armed for that stream.
C27_FlushClosesOwnSession ==
    [][\A s \in Sess :
          ((tsws[s] /\ ~tsws'[s])
             \/ (transcriptionStreamRef = s /\ transcriptionStreamRef' = NoSess))
            => (flushTimers # <<>> /\ Head(flushTimers).for = s)]_vars

\* C28: stop() while a start() is pending does nothing to the session being
\* started.  While the state is Idle and session s awaits getUserMedia or
\* connect(), no step ends the tracks of its stream, writes to its socket
\* or arms a flush timer; and when its connect() resolves, that start()
\* ends in Recording with live tracks and an open socket.
C28_StopSparesPendingStart ==
    [][\A s \in Sess :
          /\ (pc[s] \in {"gum", "connect"} /\ RecState = "Idle")
                => /\ tracks[s] = "live" => tracks'[s] = "live"
                   /\ wire'[s] = wire[s]
                   /\ Len(flushTimers') <= Len(flushTimers)
          /\ (pc[s] = "connect" /\ pc'[s] # "connect" /\ ws'[s] = "OPEN")
                => /\ pc'[s] = "started"
                   /\ tracks'[s] = "live"
                   /\ RecState' = "Recording"]_vars

\* the control frames among the frames q, in the order sent
CtlSeq(q) == SelectSeq(q, LAMBDA f : f.t # "audio")

\* C29: on every connection the control frames read pause, resume, pause,
\* resume, ..., optionally ended by one stop; a pause (resume) frame is
\* written in the step that takes the state from Recording to Paused (from
\* Paused to Recording), and such a step writes it whenever the stream in
\* the ref is open.
C29_ControlProtocol ==
    /\ [](\A s \in Sess :
            LET c == CtlSeq(wire[s]) IN
            \A i \in 1..Len(c) :
               /\ c[i].t = "pause" => i % 2 = 1
               /\ c[i].t = "resume" => i % 2 = 0
               /\ c[i].t = "stop" => i = Len(c))
    /\ [][/\ \A s \in Sess :
               /\ CtlSent(s, "pause") => (RecState = "Recording" /\ RecState' = "Paused")
               /\ CtlSent(s, "resume") => (RecState = "Paused" /\ RecState' = "Recording")
          /\ (PauseActed /\ IsOpen(transcriptionStreamRef))
                => CtlSent(transcriptionStreamRef, "pause")
          /\ (ResumeActed /\ IsOpen(transcriptionStreamRef))
                => CtlSent(transcriptionStreamRef, "resume")]_vars

\* C30: one failure of start() is reported once: for a start() that failed
\* on the device or on the initial connect, the caller's onError has been
\* invoked exactly once on behalf of that start().
C30_StartFailureReportedOnce ==
    \A s \in Sess :
       pc[s] \in {"captureFailed", "connectFailed"}
          => Cardinality({i \in 1..Len(calls) :
                            calls[i].src = s /\ calls[i].cb = "onError"}) = 1

\* C31: sendAudioChunk never fails when close() is called while the chunk's
\* arrayBuffer() read is pending: no sendAudioChunk promise is rejected,
\* and the step that completes the read of a chunk whose stream has been
\* closed meanwhile writes nothing to any socket.
C31_SendSurvivesClose ==
    /\ [](~sendThrew)
    /\ [][\A e \in inflight :
             (e \notin inflight' /\ ~IsOpen(e.t)) => wire' = wire]_vars

====
